---------------------------- MODULE Spec2Model ----------------------------
(***************************************************************************)
(* A model of dfac.py (DFaC: Dify Flow as Code CLI).                       *)
(*                                                                         *)
(* A Python str is modelled as a sequence of Unicode code points, so that  *)
(* the character classes of the regular expressions, str.strip, str.upper  *)
(* and the universal-newline translation of text files are computed on     *)
(* the characters and not assumed.  A path is a sequence of segments.      *)
(***************************************************************************)
EXTENDS Integers, Sequences, FiniteSets, TLC

VARIABLES
    san_pc, san_name, san_out, san_twice,  \* a caller of ensure_filename
    apps_file,                             \* dfac_apps.yaml
    apps0,                                 \* history: the registry a run started from
    reg_res,                               \* the last registry call and what it returned
    fs,                                    \* the files under the working directory
    flow_pc, flow_doc, flow_out,           \* a caller of split_flow_to_files and
                                           \* build_flow_from_files
    res,                                   \* the last command run and what it did
    pulled                                 \* history: the pulls that reached the split

san_vars == <<san_pc, san_name, san_out, san_twice>>
reg_vars == <<apps_file, apps0, reg_res>>
flow_vars == <<flow_pc, flow_doc, flow_out>>
cli_vars == <<res, pulled>>
vars == <<san_vars, reg_vars, fs, flow_vars, cli_vars>>

(***************************************************************************)
(* Sequence helpers.                                                       *)
(***************************************************************************)
RECURSIVE SeqsUpTo(_, _)
SeqsUpTo(S, n) ==
    IF n = 0 THEN {<<>>}
    ELSE LET shorter == SeqsUpTo(S, n - 1)
         IN  shorter \cup {Append(s, x) : s \in {t \in shorter : Len(t) = n - 1}, x \in S}

RECURSIVE Flatten(_)
Flatten(ss) == IF ss = <<>> THEN <<>> ELSE Head(ss) \o Flatten(Tail(ss))

(***************************************************************************)
(* WINDOWS_RESERVED_NAMES: CON PRN AUX NUL COM1..COM9 LPT1..LPT9.          *)
(***************************************************************************)
WINDOWS_RESERVED_NAMES ==
    { <<67, 79, 78>>, <<80, 82, 78>>, <<65, 85, 88>>, <<78, 85, 76>> }
    \cup { <<67, 79, 77, 48 + i>> : i \in 1..9 }
    \cup { <<76, 80, 84, 48 + i>> : i \in 1..9 }

(***************************************************************************)
(* unicodedata.normalize("NFKC", .) on the code points the model draws     *)
(* from: U+FF0F FULLWIDTH SOLIDUS has the compatibility mapping "/",       *)
(* U+00A0 NO-BREAK SPACE the mapping " "; ASCII is left as it is.          *)
(***************************************************************************)
NfkcChar(c) ==
    CASE c = 65295 -> <<47>>
      [] c = 160   -> <<32>>
      [] OTHER     -> <<c>>

Nfkc(name) == Flatten([i \in 1..Len(name) |-> NfkcChar(name[i])])

(***************************************************************************)
(* invalid_chars = [\\/:*?"<>|\x00-\x1F]                                   *)
(***************************************************************************)
InvalidChar(c) == c \in {92, 47, 58, 42, 63, 34, 60, 62, 124} \/ c \in 0..31

ReplaceInvalid(name) ==
    [i \in 1..Len(name) |-> IF InvalidChar(name[i]) THEN 95 ELSE name[i]]

(***************************************************************************)
(* str.strip(" .")                                                         *)
(***************************************************************************)
RECURSIVE LStrip(_, _)
LStrip(name, chars) ==
    IF name # <<>> /\ Head(name) \in chars THEN LStrip(Tail(name), chars) ELSE name

RECURSIVE RStrip(_, _)
RStrip(name, chars) ==
    IF name # <<>> /\ name[Len(name)] \in chars
    THEN RStrip(SubSeq(name, 1, Len(name) - 1), chars)
    ELSE name

Strip(name, chars) == RStrip(LStrip(name, chars), chars)

(***************************************************************************)
(* str.upper() on ASCII letters; the other code points of the model        *)
(* (digits, punctuation, controls) have no case.                           *)
(***************************************************************************)
Upper(name) ==
    [i \in 1..Len(name) |-> IF name[i] \in 97..122 THEN name[i] - 32 ELSE name[i]]

(***************************************************************************)
(* re.sub(r"_+", "_", name)                                                *)
(***************************************************************************)
RECURSIVE CollapseUnderscores(_)
CollapseUnderscores(name) ==
    IF Len(name) < 2 THEN name
    ELSE IF name[1] = 95 /\ name[2] = 95 THEN CollapseUnderscores(Tail(name))
    ELSE <<Head(name)>> \o CollapseUnderscores(Tail(name))

Unnamed == <<117, 110, 110, 97, 109, 101, 100>>      \* "unnamed"

OrUnnamed(name) == IF name = <<>> THEN Unnamed ELSE name

SuffixReserved(name) ==
    IF Upper(name) \in WINDOWS_RESERVED_NAMES THEN Append(name, 95) ELSE name

\* The extension None, like the extension "", is the empty sequence: both are
\* false in "if extension:".
NoExtension == <<>>

\* extension if extension.startswith(".") else "." + extension
WithExtension(name, extension) ==
    IF extension = <<>> THEN name
    ELSE IF Head(extension) = 46 THEN name \o extension
    ELSE name \o <<46>> \o extension

\* The reserved-name test made before the strip: a plausible slip of order.
ensure_filename_strip_late(name, extension) ==
    WithExtension(
        CollapseUnderscores(
            OrUnnamed(Strip(SuffixReserved(ReplaceInvalid(Nfkc(name))), {32, 46}))),
        extension)

\* The character class without the range \x00-\x1F.
ensure_filename_no_range(name, extension) ==
    LET replaced == [i \in 1..Len(Nfkc(name)) |->
                        IF Nfkc(name)[i] \in {92, 47, 58, 42, 63, 34, 60, 62, 124}
                        THEN 95 ELSE Nfkc(name)[i]]
    IN  WithExtension(
            CollapseUnderscores(SuffixReserved(OrUnnamed(Strip(replaced, {32, 46})))),
            extension)

ensure_filename(name, extension) ==
    WithExtension(
        CollapseUnderscores(
            SuffixReserved(OrUnnamed(Strip(ReplaceInvalid(Nfkc(name)), {32, 46})))),
        extension)


(***************************************************************************)
(* The identity registry, dfac_apps.yaml: whether the file exists, and the *)
(* list under its key "apps", a sequence of entries [name, id, dir].       *)
(***************************************************************************)
NoFile == [exists |-> FALSE, apps |-> <<>>]

load_apps_map(file) == IF file.exists THEN file.apps ELSE <<>>

save_apps_map(apps) == [exists |-> TRUE, apps |-> apps]

IdLen == 36

\* [0-9a-fA-F-]
HexOrDash(c) == c \in 48..57 \/ c \in 97..102 \/ c \in 65..70 \/ c = 45

\* re.fullmatch(r"[0-9a-fA-F-]{36}", token)
IsIdShape(token) == Len(token) = IdLen /\ \A i \in 1..Len(token) : HexOrDash(token[i])

\* A returned value, or the exception raised.
Ok(v) == [ok |-> TRUE, val |-> v, err |-> ""]
Err(kind) == [ok |-> FALSE, val |-> <<>>, err |-> kind]

\* for entry in apps: if entry[field] == token: return entry["id"]
RECURSIVE FirstWith(_, _, _)
FirstWith(apps, field, token) ==
    IF apps = <<>> THEN Err("no entry")
    ELSE IF Head(apps)[field] = token THEN Ok(Head(apps).id)
    ELSE FirstWith(Tail(apps), field, token)


\* The name loop before the dir loop.
resolve_name_first(name_or_dir, apps) ==
    IF IsIdShape(name_or_dir) THEN Ok(name_or_dir)
    ELSE IF FirstWith(apps, "name", name_or_dir).ok
         THEN FirstWith(apps, "name", name_or_dir)
    ELSE IF FirstWith(apps, "dir", name_or_dir).ok
         THEN FirstWith(apps, "dir", name_or_dir)
    ELSE Err("ValueError")

resolve_app_identifier(name_or_dir, apps) ==
    IF IsIdShape(name_or_dir) THEN Ok(name_or_dir)
    ELSE IF FirstWith(apps, "dir", name_or_dir).ok
         THEN FirstWith(apps, "dir", name_or_dir)
    ELSE IF FirstWith(apps, "name", name_or_dir).ok
         THEN FirstWith(apps, "name", name_or_dir)
    ELSE Err("ValueError")

\* str(k) of a natural number, as the f-string formats it.
RECURSIVE DecimalStr(_)
DecimalStr(k) ==
    IF k < 10 THEN <<48 + k>> ELSE DecimalStr(k \div 10) \o <<48 + (k % 10)>>

Dirs(apps) == {apps[i].dir : i \in 1..Len(apps)}

\* One test of the set instead of the while loop.
AllocLoopOnce(dir_name, base, suffix, exists) ==
    IF dir_name \in exists THEN base \o <<95>> \o DecimalStr(suffix) ELSE dir_name

\* while dir_name in exists: dir_name = f"{base}_{suffix}"; suffix += 1
RECURSIVE AllocLoop(_, _, _, _)
AllocLoop(dir_name, base, suffix, exists) ==
    IF dir_name \in exists
    THEN AllocLoop(base \o <<95>> \o DecimalStr(suffix), base, suffix + 1, exists)
    ELSE dir_name

\* The suffix counted from 1.
allocate_from_one(app_name, app_id, apps) ==
    LET base     == ensure_filename(app_name, NoExtension)
        dir_name == AllocLoop(base, base, 1, Dirs(apps))
    IN  [apps |-> save_apps_map(
                      Append(apps, [name |-> app_name, id |-> app_id, dir |-> dir_name])),
         dir  |-> dir_name]

\* The registry after the call (appended and saved) and the returned dir.
allocate_dir_for_app(app_name, app_id, apps) ==
    LET base     == ensure_filename(app_name, NoExtension)
        dir_name == AllocLoop(base, base, 2, Dirs(apps))
    IN  [apps |-> save_apps_map(
                      Append(apps, [name |-> app_name, id |-> app_id, dir |-> dir_name])),
         dir  |-> dir_name]

(***************************************************************************)
(* Files.  fs maps    a path (a sequence of segments) to a file; a missing    *)
(* path is not in its domain.  A file written with yaml.safe_dump holds    *)
(* the dumped structure and load_yaml gives that structure back (PyYAML is *)
(* a library: a dict of str, list and dict values is taken to survive      *)
(* dump and load).  A text file holds characters.  Paths stay relative to  *)
(* one working directory, so Path(ref).resolve() names the file that the   *)
(* same string named when it was written.                                  *)
(***************************************************************************)
EmptyFs == [p \in {} |-> [kind |-> "none"]]

Exists(files, path) == path \in DOMAIN files

Write(files, path, file) == (path :> file) @@ files

YamlFile(v) == [kind |-> "yaml", val |-> v]

\* os.linesep on POSIX.
os_linesep == <<10>>

\* Path.write_text(text): text mode, newline=None: "\n" is written as os.linesep.
TextFile(text) ==
    [kind |-> "text",
     val  |-> Flatten([i \in 1..Len(text) |->
                          IF text[i] = 10 THEN os_linesep ELSE <<text[i]>>])]

\* Path.read_text(): text mode, newline=None: "\r\n" and "\r" are read as "\n".
RECURSIVE UniversalNewlines(_)
UniversalNewlines(chars) ==
    IF chars = <<>> THEN <<>>
    ELSE IF Head(chars) = 13
         THEN IF Len(chars) >= 2 /\ chars[2] = 10
              THEN <<10>> \o UniversalNewlines(Tail(Tail(chars)))
              ELSE <<10>> \o UniversalNewlines(Tail(chars))
    ELSE <<Head(chars)>> \o UniversalNewlines(Tail(chars))

read_text(files, path) == UniversalNewlines(files[path].val)

load_yaml(files, path) == files[path].val

(***************************************************************************)
(* Values of a document.  A text field is an inline str, a reference       *)
(* pointer {"ref": path}, or some other object (None, a number, a dict).   *)
(***************************************************************************)
Str(s) == [kind |-> "str", val |-> s]
Ref(path) == [kind |-> "ref", val |-> path]
Obj == [kind |-> "obj", val |-> <<>>]

Has(d, key) == key \in DOMAIN d

\* d with d[key] = v (a key of d, or a new one).
Put(d, key, v) == (key :> v) @@ d

\* sub in s, for str
Contains(sub, s) ==
    \E i \in 0..(Len(s) - Len(sub)) : SubSeq(s, i + 1, i + Len(sub)) = sub

SegNodes   == <<110, 111, 100, 101, 115>>                       \* "nodes"
SegPrompts == <<112, 114, 111, 109, 112, 116, 115>>             \* "prompts"
SegCode    == <<99, 111, 100, 101>>                             \* "code"
SegMain    == <<109, 97, 105, 110, 46, 121, 97, 109, 108>>      \* "main.yaml"
ExtYaml    == <<46, 121, 97, 109, 108>>                         \* ".yaml"
ExtMd      == <<46, 109, 100>>                                  \* ".md"
ExtPy      == <<46, 112, 121>>                                  \* ".py"
ExtJs      == <<46, 106, 115>>                                  \* ".js"
ExtTxt     == <<46, 116, 120, 116>>                             \* ".txt"
Python     == <<112, 121, 116, 104, 111, 110>>                  \* "python"
Javascript == <<106, 97, 118, 97, 115, 99, 114, 105, 112, 116>> \* "javascript"

\* What a part of split_flow_to_files leaves: the files, the value built, and the
\* exception raised ("" for none).
Step(files, out, err) == [files |-> files, out |-> out, err |-> err]

\* prompt_path.write_text(prompt["text"]); prompt["text"] = {"ref": f"{prompt_path}"}
SplitPrompt(prompt, prompt_path, files) ==
    IF ~Has(prompt, "text") THEN Step(files, prompt, "KeyError")
    ELSE IF prompt.text.kind # "str" THEN Step(files, prompt, "TypeError")
    ELSE Step(Write(files, prompt_path, TextFile(prompt.text.val)),
              Put(prompt, "text", Ref(prompt_path)), "")

\* prompts_dir / f"{node_name_path}__{ensure_filename(role)}.md"
PromptPath(prompts_dir, node_name_path, role) ==
    Append(prompts_dir,
           node_name_path \o <<95, 95>> \o ensure_filename(role, NoExtension) \o ExtMd)

(***************************************************************************)
(* split_flow_to_files, the loop over node_data["prompt_template"]: each   *)
(* text goes to prompts/<node>__<role>.md and becomes a reference.         *)
(***************************************************************************)
RECURSIVE SplitPrompts(_, _, _, _, _)
SplitPromptsNext(s, todo, node_name_path, prompts_dir, prompts) ==
    IF s.err # "" THEN Step(s.files, prompts, s.err)
    ELSE SplitPrompts(Tail(todo), node_name_path, prompts_dir, s.files,
                      Append(prompts, s.out))

SplitPrompts(todo, node_name_path, prompts_dir, files, prompts) ==
    IF todo = <<>> THEN Step(files, prompts, "")
    ELSE IF ~Has(Head(todo), "role") THEN Step(files, prompts, "KeyError")
    ELSE SplitPromptsNext(
             SplitPrompt(Head(todo),
                         PromptPath(prompts_dir, node_name_path, Head(todo).role), files),
             todo, node_name_path, prompts_dir, prompts)

\* The script path: the extension by containment in code_language.
ScriptPath(code_dir, node_name_path, code_language) ==
    IF Contains(Python, code_language) THEN Append(code_dir, node_name_path \o ExtPy)
    ELSE IF Contains(Javascript, code_language)
         THEN Append(code_dir, node_name_path \o ExtJs)
    ELSE Append(code_dir, node_name_path \o ExtTxt)

\* script_path.write_text(node_data["code"]); node_data["code"] = {"ref": ...}
WriteCode(node_data, script_path, files) ==
    Step(Write(files, script_path, TextFile(node_data.code.val)),
         Put(node_data, "code", Ref(script_path)), "")

\* The code block of one node: written to code/<node><ext> when it is a str.
SplitCode(node_data, node_name_path, code_dir, files) ==
    IF Has(node_data, "code") /\ node_data.code.kind = "str"
    THEN IF ~Has(node_data, "code_language") THEN Step(files, node_data, "KeyError")
         ELSE WriteCode(node_data,
                        ScriptPath(code_dir, node_name_path, node_data.code_language),
                        files)
    ELSE Step(files, node_data, "")

\* The node descriptor written, and the {"ref": node_file} entry of main.yaml.
SplitNodeFile(node, node_file, c) ==
    IF c.err # "" THEN Step(c.files, Obj, c.err)
    ELSE Step(Write(c.files, node_file, YamlFile(Put(node, "data", c.out))),
              Ref(node_file), "")

\* After the prompts (p): the code block, then the node descriptor.
SplitNodeCode(node, node_name_path, flow_dir, p) ==
    IF p.err # "" THEN Step(p.files, Obj, p.err)
    ELSE SplitNodeFile(
             node, flow_dir \o <<SegNodes, node_name_path \o ExtYaml>>,
             SplitCode(IF Has(node.data, "prompt_template")
                       THEN Put(node.data, "prompt_template", p.out)
                       ELSE node.data,
                       node_name_path, Append(flow_dir, SegCode), p.files))

SplitNodeNamed(node, node_name_path, flow_dir, files) ==
    SplitNodeCode(node, node_name_path, flow_dir,
                  IF Has(node.data, "prompt_template")
                  THEN SplitPrompts(node.data.prompt_template, node_name_path,
                                    Append(flow_dir, SegPrompts), files, <<>>)
                  ELSE Step(files, <<>>, ""))

\* One pass of the loop over the nodes.
SplitNode(node, flow_dir, files) ==
    IF ~Has(node, "data") \/ ~Has(node.data, "title") THEN Step(files, Obj, "KeyError")
    ELSE SplitNodeNamed(node, ensure_filename(node.data.title, NoExtension),
                        flow_dir, files)

RECURSIVE SplitNodes(_, _, _, _)
SplitNodesNext(n, todo, flow_dir, nodes) ==
    IF n.err # "" THEN Step(n.files, nodes, n.err)
    ELSE SplitNodes(Tail(todo), flow_dir, n.files, Append(nodes, n.out))

SplitNodes(todo, flow_dir, files, nodes) ==
    IF todo = <<>> THEN Step(files, nodes, "")
    ELSE SplitNodesNext(SplitNode(Head(todo), flow_dir, files), todo, flow_dir, nodes)

\* dsl["workflow"]["graph"]["nodes"]
HasNodes(dsl) ==
    /\ Has(dsl, "workflow")
    /\ Has(dsl.workflow, "graph")
    /\ Has(dsl.workflow.graph, "nodes")

WithNodes(dsl, nodes) ==
    Put(dsl, "workflow", Put(dsl.workflow, "graph", Put(dsl.workflow.graph, "nodes", nodes)))

\* main.yaml, written last, when every node was written.
WriteMain(dsl, flow_dir, s) ==
    IF s.err # "" THEN Step(s.files, Obj, s.err)
    ELSE Step(Write(s.files, Append(flow_dir, SegMain), YamlFile(WithNodes(dsl, s.out))),
              Obj, "")

(***************************************************************************)
(* split_flow_to_files(dsl, flow_dir): the files after the call and the    *)
(* exception it raised, if any.  What was written before an exception      *)
(* stays written.                                                          *)
(***************************************************************************)
split_flow_to_files(dsl, flow_dir, files) ==
    IF ~HasNodes(dsl) THEN Step(files, Obj, "KeyError")
    ELSE WriteMain(dsl, flow_dir, SplitNodes(dsl.workflow.graph.nodes, flow_dir, files, <<>>))

(***************************************************************************)
(* build_flow_from_files: every reference read back.                       *)
(***************************************************************************)
Built(out, err) == [out |-> out, err |-> err]

\* One prompt with its text read from the file its reference names.
BuildPrompt(prompt, files) ==
    IF ~Has(prompt, "text") THEN Built(prompt, "KeyError")
    ELSE IF prompt.text.kind = "ref"
    THEN IF ~Exists(files, prompt.text.val) THEN Built(prompt, "FileNotFoundError")
         ELSE Built(Put(prompt, "text", Str(read_text(files, prompt.text.val))), "")
    ELSE Built(prompt, "")

RECURSIVE BuildPrompts(_, _, _)
BuildPromptsNext(b, todo, files, prompts) ==
    IF b.err # "" THEN Built(prompts, b.err)
    ELSE BuildPrompts(Tail(todo), files, Append(prompts, b.out))

BuildPrompts(todo, files, prompts) ==
    IF todo = <<>> THEN Built(prompts, "")
    ELSE BuildPromptsNext(BuildPrompt(Head(todo), files), todo, files, prompts)

\* node_data["code"] read from the file its reference names.
BuildCode(node, node_data, files) ==
    IF Has(node_data, "code") /\ node_data.code.kind = "ref"
    THEN IF ~Exists(files, node_data.code.val) THEN Built(Obj, "FileNotFoundError")
         ELSE Built(Put(node, "data",
                        Put(node_data, "code", Str(read_text(files, node_data.code.val)))),
                    "")
    ELSE Built(Put(node, "data", node_data), "")

\* After the prompts (p): the code block.
BuildNodeCode(node, p, files) ==
    IF p.err # "" THEN Built(Obj, p.err)
    ELSE BuildCode(node,
                   IF Has(node.data, "prompt_template")
                   THEN Put(node.data, "prompt_template", p.out)
                   ELSE node.data,
                   files)

BuildLoaded(node, files) ==
    IF ~Has(node, "data") THEN Built(Obj, "KeyError")
    ELSE BuildNodeCode(node,
                       IF Has(node.data, "prompt_template")
                       THEN BuildPrompts(node.data.prompt_template, files, <<>>)
                       ELSE Built(<<>>, ""),
                       files)

\* One pass of the loop over main's node references.
BuildNode(n, files) ==
    IF n.kind # "ref" THEN Built(Obj, "KeyError")
    ELSE IF ~Exists(files, n.val) THEN Built(Obj, "FileNotFoundError")
    ELSE BuildLoaded(load_yaml(files, n.val), files)

RECURSIVE BuildNodes(_, _, _)
BuildNodesNext(n, todo, files, nodes) ==
    IF n.err # "" THEN Built(nodes, n.err)
    ELSE BuildNodes(Tail(todo), files, Append(nodes, n.out))

BuildNodes(todo, files, nodes) ==
    IF todo = <<>> THEN Built(nodes, "")
    ELSE BuildNodesNext(BuildNode(Head(todo), files), todo, files, nodes)

BuildMain(main, b) ==
    IF b.err # "" THEN Built(Obj, b.err) ELSE Built(WithNodes(main, b.out), "")

\* The document built, or the exception raised.
build_flow_from_files(flow_dir, files) ==
    IF ~Exists(files, Append(flow_dir, SegMain)) THEN Built(Obj, "FileNotFoundError")
    ELSE IF ~HasNodes(load_yaml(files, Append(flow_dir, SegMain)))
    THEN Built(Obj, "KeyError")
    ELSE BuildMain(load_yaml(files, Append(flow_dir, SegMain)),
                   BuildNodes(load_yaml(files, Append(flow_dir, SegMain)).workflow.graph.nodes,
                              files, <<>>))

(***************************************************************************)
(* The commands.  What the collaborators answer is an input of a command:  *)
(* whether dfac.yaml and the environment give the credentials, whether the *)
(* console accepts the login, whether the export or import call succeeds,  *)
(* and the document the export returns.  A command ends with status "ok"   *)
(* or with the error that aborted it.                                      *)
(***************************************************************************)
SegFlow == <<102, 108, 111, 119>>                     \* cfg["flow_dir"]: "./flow"

\* Path(cfg["flow_dir"]) / dir_name
FlowDirOf(dir_name) == <<SegFlow, dir_name>>

\* What a command did: the registry file and the files it leaves, its status, the
\* directory it worked on (used tells whether it got that far), and for push whether
\* the import call was made and the app_id of its payload.
Outcome(file, files, status, used, dir_name, sent, has_id, app_id) ==
    [file |-> file, files |-> files, status |-> status, used |-> used,
     dir |-> dir_name, sent |-> sent, has_id |-> has_id, app_id |-> app_id]

\* dsl["app"]["name"]
HasAppName(dsl) == Has(dsl, "app") /\ Has(dsl.app, "name")

\* A command that stopped before it touched a directory.
Aborted(file, files, status) ==
    Outcome(file, files, status, FALSE, <<>>, FALSE, FALSE, <<>>)

\* split_flow_to_files(dsl, flow_dir) done (s), after the allocation (a).
PullSplit(a, s) ==
    Outcome(a.apps, s.files, IF s.err = "" THEN "ok" ELSE s.err,
            TRUE, a.dir, FALSE, FALSE, <<>>)

\* flow_dir = Path(cfg["flow_dir"]) / dir_name; split_flow_to_files(dsl, flow_dir)
PullInto(dsl, a, files) ==
    PullSplit(a, split_flow_to_files(dsl, FlowDirOf(a.dir), files))

(***************************************************************************)
(* pull: login, export, allocate a directory, split into it.               *)
(***************************************************************************)
pull(cfg_ok, login_ok, fetch_ok, dsl, app, file, files) ==
    IF ~cfg_ok THEN Aborted(file, files, "ConfigError")
    ELSE IF ~login_ok THEN Aborted(file, files, "AuthError")
    ELSE IF ~fetch_ok THEN Aborted(file, files, "FetchError")
    ELSE IF ~HasAppName(dsl) THEN Aborted(file, files, "KeyError")
    ELSE PullInto(dsl, allocate_dir_for_app(dsl.app.name, app, load_apps_map(file)), files)

\* next(entry["dir"] for entry in apps if entry["id"] == app_id)
RECURSIVE DirOfId(_, _)
DirOfId(apps, app_id) ==
    IF apps = <<>> THEN Err("StopIteration")
    ELSE IF Head(apps).id = app_id THEN Ok(Head(apps).dir)
    ELSE DirOfId(Tail(apps), app_id)

\* The login and the import call, with the document built (dsl).
PushBuilt(login_ok, import_ok, create_new, app_id, dir_name, dsl, file, files) ==
    IF dsl.err # "" THEN Outcome(file, files, dsl.err, TRUE, dir_name, FALSE, FALSE, <<>>)
    ELSE IF ~login_ok
    THEN Outcome(file, files, "AuthError", TRUE, dir_name, FALSE, FALSE, <<>>)
    ELSE Outcome(file, files, IF import_ok THEN "ok" ELSE "PushError",
                 TRUE, dir_name, TRUE, ~create_new, IF create_new THEN <<>> ELSE app_id)

\* flow_dir = Path(cfg["flow_dir"]) / dir_name; dsl = build_flow_from_files(flow_dir)
PushDir(login_ok, import_ok, create_new, app_id, dir_name, file, files) ==
    IF ~dir_name.ok THEN Aborted(file, files, dir_name.err)
    ELSE PushBuilt(login_ok, import_ok, create_new, app_id, dir_name.val,
                   build_flow_from_files(FlowDirOf(dir_name.val), files), file, files)

\* dir_name = next(...), with the id resolved (app_id).
PushResolved(login_ok, import_ok, create_new, app_id, file, files) ==
    IF ~app_id.ok THEN Aborted(file, files, app_id.err)
    ELSE PushDir(login_ok, import_ok, create_new, app_id.val,
                 DirOfId(load_apps_map(file), app_id.val), file, files)

(***************************************************************************)
(* push: resolve the token, build from the directory, login, import.       *)
(***************************************************************************)
push(cfg_ok, login_ok, import_ok, create_new, app, file, files) ==
    IF ~cfg_ok THEN Aborted(file, files, "ConfigError")
    ELSE PushResolved(login_ok, import_ok, create_new,
                      resolve_app_identifier(app, load_apps_map(file)), file, files)

\* typer.echo(yaml.safe_dump(flow_json))
BuildEcho(flow_path, flow_json, file, files) ==
    Outcome(file, files, IF flow_json.err = "" THEN "ok" ELSE flow_json.err,
            TRUE, flow_path[Len(flow_path)], FALSE, FALSE, <<>>)

(***************************************************************************)
(* build: build from a path and print.                                     *)
(***************************************************************************)
build(flow_path, file, files) ==
    BuildEcho(flow_path, build_flow_from_files(flow_path, files), file, files)
(***************************************************************************)
(* The sanitizer on its own: a caller applies ensure_filename to a name    *)
(* and then to the result.                                                 *)
(***************************************************************************)
MaxNameLen == 4

\* C O N o _ / space . U+0001 DEL U+FF0F
SanAlphabet == {67, 79, 78, 111, 95, 47, 32, 46, 1, 127, 65295}

NoRes == [op |-> "none"]

SanIdle ==
    /\ san_pc = "idle"
    /\ san_name = <<>>
    /\ san_out = <<>>
    /\ san_twice = <<>>

RegIdle ==
    /\ apps_file = NoFile
    /\ apps0 = <<>>
    /\ reg_res = NoRes

FlowIdle ==
    /\ flow_pc = "idle"
    /\ flow_doc = <<>>
    /\ flow_out = Built(Obj, "")

CliIdle ==
    /\ res = NoRes
    /\ pulled = <<>>

SanInit ==
    /\ san_pc = "start"
    /\ san_name \in SeqsUpTo(SanAlphabet, MaxNameLen)
    /\ san_out = <<>>
    /\ san_twice = <<>>
    /\ RegIdle
    /\ fs = EmptyFs
    /\ FlowIdle
    /\ CliIdle

Sanitize ==
    /\ san_pc = "start"
    /\ san_out' = ensure_filename(san_name, NoExtension)
    /\ san_pc' = "once"
    /\ UNCHANGED <<san_name, san_twice, reg_vars, fs, flow_vars, cli_vars>>

Resanitize ==
    /\ san_pc = "once"
    /\ san_twice' = ensure_filename(san_out, NoExtension)
    /\ san_pc' = "twice"
    /\ UNCHANGED <<san_name, san_out, reg_vars, fs, flow_vars, cli_vars>>

SanNext == Sanitize \/ Resanitize

SpecSan == SanInit /\ [][SanNext]_vars


(***************************************************************************)
(* The registry on its own: one process that holds the loaded registry and *)
(* calls allocate_dir_for_app and resolve_app_identifier on it.            *)
(***************************************************************************)
Demo   == <<68, 101, 109, 111>>                       \* "Demo"
Demo_2 == Demo \o <<95, 50>>                          \* "Demo_2"
Demo_3 == Demo \o <<95, 51>>                          \* "Demo_3"
Nope   == <<110, 111, 112, 101>>                      \* "nope"
Con    == <<67, 79, 78>>                              \* "CON"

\* "11111111-1111-1111-1111-111111111111" and "aaaaaaaa-aaaa-aaaa-aaaa-aaaaaaaaaaaa"
Id1 == [i \in 1..IdLen |-> IF i \in {9, 14, 19, 24} THEN 45 ELSE 49]
Id2 == [i \in 1..IdLen |-> IF i \in {9, 14, 19, 24} THEN 45 ELSE 97]
\* 36 characters, one of them not of the class ("g"); 35 characters of the class
NotId1 == [i \in 1..IdLen |-> IF i = 1 THEN 103 ELSE 49]
NotId2 == [i \in 1..(IdLen - 1) |-> 49]

Entry(n, i, d) == [name |-> n, id |-> i, dir |-> d]

\* Registries a run may find on disk: written by earlier pulls, or by hand.
InitRegistries ==
    { <<>>,
      <<Entry(Demo, Id1, Demo), Entry(Demo, Id2, Demo_3)>>,
      <<Entry(Demo_2, Id1, Demo), Entry(Demo, Id2, Demo_2)>>,
      <<Entry(Demo, Id1, Demo), Entry(Demo_2, Id2, Demo)>>,
      <<Entry(Id1, Id2, NotId1), Entry(NotId1, Id2, Id1)>>,
      <<Entry(NotId2, Id1, Demo_2), Entry(Demo_2, Id2, NotId2)>> }

RegNames == {Demo, Demo_2, Con}
RegIds == {Id1, Id2}
RegTokens == {Demo, Demo_2, Demo_3, Nope, Id1, Id2, NotId1, NotId2}

MaxAllocs == 3

RegInit ==
    /\ apps0 \in InitRegistries
    /\ apps_file = (IF apps0 = <<>> THEN NoFile ELSE save_apps_map(apps0))
    /\ reg_res = NoRes
    /\ SanIdle
    /\ fs = EmptyFs
    /\ FlowIdle
    /\ CliIdle

Allocate ==
    /\ Len(load_apps_map(apps_file)) < Len(apps0) + MaxAllocs
    /\ \E app_name \in RegNames, app_id \in RegIds :
          LET apps_map == load_apps_map(apps_file)
              r == allocate_dir_for_app(app_name, app_id, apps_map)
          IN  /\ apps_file' = r.apps
              /\ reg_res' = [op |-> "allocate", name |-> app_name, id |-> app_id,
                             before |-> apps_map, ret |-> r.dir]
    /\ UNCHANGED <<apps0, san_vars, fs, flow_vars, cli_vars>>

Resolve ==
    /\ \E token \in RegTokens :
          reg_res' = [op |-> "resolve", token |-> token,
                      ret |-> resolve_app_identifier(token, load_apps_map(apps_file))]
    /\ UNCHANGED <<apps_file, apps0, san_vars, fs, flow_vars, cli_vars>>

RegNext == Allocate \/ Resolve

SpecReg == RegInit /\ [][RegNext]_vars

(***************************************************************************)
(* Decomposition and composition on their own: a workflow document is      *)
(* split into an empty directory and built again from it.                  *)
(***************************************************************************)
TextX    == <<120>>                                   \* "x"
TextY    == <<121>>                                   \* "y"
TextCrLf == <<121, 13, 10, 122>>                      \* "y\r\nz"
User     == <<117, 115, 101, 114>>                    \* "user"
System   == <<115, 121, 115, 116, 101, 109>>          \* "system"
Python3  == Python \o <<51>>                          \* "python3"
JsEs6    == Javascript \o <<45, 101, 115, 54>>        \* "javascript-es6"
Ruby     == <<114, 117, 98, 121>>                     \* "ruby"

Prompt(role, text) == [role |-> role, text |-> Str(text)]

\* The data of a node, beside its title.
NodeBodies ==
    { [x \in {} |-> Obj],
      [prompt_template |-> <<Prompt(System, TextX), Prompt(User, TextY)>>],
      [prompt_template |-> <<Prompt(User, TextX), Prompt(User, TextY)>>],
      [code |-> Str(TextX), code_language |-> Python3],
      [code |-> Str(TextY), code_language |-> JsEs6],
      [code |-> Str(TextCrLf), code_language |-> Ruby],
      [code |-> Obj],
      [prompt_template |-> <<Prompt(User, TextX)>>,
       code |-> Str(TextY), code_language |-> Python3] }

\* "A", "a/b", "a:b"
NodeTitles == {<<65>>, <<97, 47, 98>>, <<97, 58, 98>>}

\* "1", "2"
NodeIds == {<<49>>, <<50>>}

WellFormedNodes ==
    { [id |-> i, data |-> Put(b, "title", t)] :
          i \in NodeIds, t \in NodeTitles, b \in NodeBodies }

Document(app_name, nodes) ==
    [app |-> [name |-> app_name], workflow |-> [graph |-> [nodes |-> nodes]]]

MaxNodes == 2

FlowDir == FlowDirOf(Demo)

FlowInit ==
    /\ flow_pc = "start"
    /\ flow_doc \in {Document(Demo, ns) : ns \in SeqsUpTo(WellFormedNodes, MaxNodes)}
    /\ flow_out = Built(Obj, "")
    /\ fs = EmptyFs
    /\ SanIdle
    /\ RegIdle
    /\ CliIdle

Decomposed(s) ==
    /\ fs' = s.files
    /\ flow_pc' = IF s.err = "" THEN "split" ELSE "failed"

Decompose ==
    /\ flow_pc = "start"
    /\ Decomposed(split_flow_to_files(flow_doc, FlowDir, fs))
    /\ UNCHANGED <<flow_doc, flow_out, san_vars, reg_vars, cli_vars>>

Compose ==
    /\ flow_pc = "split"
    /\ flow_out' = build_flow_from_files(FlowDir, fs)
    /\ flow_pc' = "built"
    /\ UNCHANGED <<flow_doc, fs, san_vars, reg_vars, cli_vars>>

FlowNext == Decompose \/ Compose

SpecFlow == FlowInit /\ [][FlowNext]_vars

(***************************************************************************)
(* The command line: pull, push and build run one after the other, each a  *)
(* process of its own that loads dfac_apps.yaml and finds the files the    *)
(* earlier ones left.  The first run finds no registry and no files.       *)
(***************************************************************************)
GoodNode == [id |-> <<49>>,
             data |-> [title |-> <<65>>,
                       prompt_template |-> <<Prompt(User, TextX)>>,
                       code |-> Str(TextY), code_language |-> Python3]]

\* A node descriptor without a title.
UntitledNode == [id |-> <<50>>, data |-> [code |-> Obj]]

\* What the export of an app may hold.
ServerDocs ==
    { Document(n, ns) : n \in {Demo, Con}, ns \in {<<GoodNode>>, <<GoodNode, UntitledNode>>} }
    \cup { [app |-> [mode |-> Obj], workflow |-> [graph |-> [nodes |-> <<GoodNode>>]]] }

AppIds == {Id1, Id2}

PushTokens == {Demo, Demo_2, Con \o <<95>>, Nope, Id1, Id2}

BuildPaths == {FlowDirOf(Demo), FlowDirOf(Demo_2), FlowDirOf(Nope)}

\* The collaborators' answers (cfg_ok, login_ok, call_ok): all well, or the first
\* thing that goes wrong.
Answers ==
    { <<TRUE, TRUE, TRUE>>, <<FALSE, TRUE, TRUE>>, <<TRUE, FALSE, TRUE>>,
      <<TRUE, TRUE, FALSE>> }

MaxPulls == 2

Init ==
    /\ apps_file = NoFile
    /\ apps0 = <<>>
    /\ reg_res = NoRes
    /\ fs = EmptyFs
    /\ res = NoRes
    /\ pulled = <<>>
    /\ SanIdle
    /\ FlowIdle

Ran(op, arg, before, o) ==
    [op |-> op, arg |-> arg, before |-> before, status |-> o.status, used |-> o.used,
     dir |-> o.dir, sent |-> o.sent, has_id |-> o.has_id, app_id |-> o.app_id]

\* The state a command leaves.
Finish(op, arg, o) ==
    /\ apps_file' = o.file
    /\ fs' = o.files
    /\ res' = Ran(op, arg, apps_file, o)

PullRun(app, dsl, o) ==
    /\ Finish("pull", app, o)
    /\ pulled' = IF o.used
                 THEN Append(pulled, [id |-> app, name |-> dsl.app.name, dir |-> o.dir])
                 ELSE pulled

Pull ==
    /\ Len(load_apps_map(apps_file)) < MaxPulls
    /\ \E app \in AppIds, dsl \in ServerDocs, ans \in Answers :
          PullRun(app, dsl, pull(ans[1], ans[2], ans[3], dsl, app, apps_file, fs))
    /\ UNCHANGED <<apps0, reg_res, san_vars, flow_vars>>

Push ==
    /\ \E app \in PushTokens, create_new \in BOOLEAN, ans \in Answers :
          Finish("push", app, push(ans[1], ans[2], ans[3], create_new, app, apps_file, fs))
    /\ UNCHANGED <<pulled, apps0, reg_res, san_vars, flow_vars>>

Build ==
    /\ \E flow_path \in BuildPaths :
          Finish("build", flow_path[Len(flow_path)], build(flow_path, apps_file, fs))
    /\ UNCHANGED <<pulled, apps0, reg_res, san_vars, flow_vars>>

Next == Pull \/ Push \/ Build

Spec == Init /\ [][Next]_vars
(***************************************************************************)
(* C5.  Sanitizer idempotence: for every name, ensure_filename applied to  *)
(* ensure_filename(name) gives ensure_filename(name) again (no extension); *)
(* ensure_filename("CON") is "CON_" and ensure_filename("CON_") is "CON_". *)
(***************************************************************************)
SanitizerIdempotent ==
    /\ san_pc = "twice" => san_twice = san_out
    /\ (san_pc # "start" /\ san_name = <<67, 79, 78>>) => san_out = <<67, 79, 78, 95>>
    /\ (san_pc # "start" /\ san_name = <<67, 79, 78, 95>>) => san_out = <<67, 79, 78, 95>>

\* "CON." is sanitized to "CON_" and sanitized again.
SanitizerIdempotentWitness ==
    /\ san_pc = "twice"
    /\ san_name = <<67, 79, 78, 46>>
    /\ san_out = <<67, 79, 78, 95>>
    /\ san_twice = <<67, 79, 78, 95>>

IllegalChars == {92, 47, 58, 42, 63, 34, 60, 62, 124}

\* Unicode general category Cc: C0 controls, DEL, C1 controls.
ControlChars == (0..31) \cup {127} \cup (128..159)

SegmentShape(out) ==
    /\ out # <<>>
    /\ Upper(out) \notin WINDOWS_RESERVED_NAMES
    /\ \A i \in 1..Len(out) : out[i] \notin IllegalChars
    /\ out[1] \notin {32, 46}
    /\ out[Len(out)] \notin {32, 46}

(***************************************************************************)
(* C6 as stated.  Sanitizer output validity: the result of ensure_filename *)
(* without extension is non-empty, is not a reserved device name in any    *)
(* letter case, holds none of \ / : * ? " < > | and no control character,  *)
(* and neither starts nor ends with a space or a dot.                      *)
(***************************************************************************)
SanitizerOutputValid ==
    san_pc # "start" =>
        /\ SegmentShape(san_out)
        /\ \A i \in 1..Len(san_out) : san_out[i] \notin ControlChars

(***************************************************************************)
(* C6 as amended.  The same, with "no control character" read as the code  *)
(* reads it: no character of U+0000..U+001F.  DEL (U+007F) is kept.        *)
(***************************************************************************)
SanitizerOutputValidC0 ==
    san_pc # "start" =>
        /\ SegmentShape(san_out)
        /\ \A i \in 1..Len(san_out) : san_out[i] \notin 0..31

\* A name of a C0 control, DEL, a fullwidth solidus and a dot.
SanitizerOutputValidWitness ==
    /\ san_pc = "once"
    /\ san_name = <<1, 127, 65295, 46>>
    /\ san_out = <<95, 127, 95>>


DirsUnique(apps) ==
    \A i, j \in 1..Len(apps) : i # j => apps[i].dir # apps[j].dir

(***************************************************************************)
(* C2.  Registry dir uniqueness: from a registry whose dir values are      *)
(* pairwise different (the empty one included), after any sequence of      *)
(* allocate_dir_for_app calls by one process no two entries have the same  *)
(* dir.                                                                    *)
(***************************************************************************)
RegistryDirsUnique ==
    DirsUnique(apps0) => DirsUnique(load_apps_map(apps_file))

\* Two more apps named "Demo" allocated beside the dirs "Demo" and "Demo_3".
RegistryDirsUniqueWitness ==
    /\ apps0 = <<Entry(Demo, Id1, Demo), Entry(Demo, Id2, Demo_3)>>
    /\ Len(load_apps_map(apps_file)) = 4
    /\ \A i \in 1..4 : load_apps_map(apps_file)[i].name = Demo

MinOf(S) == CHOOSE x \in S : \A y \in S : x <= y

(***************************************************************************)
(* C7.  Resolve precedence: a token of id shape is returned unchanged      *)
(* whatever the registry holds; any other token gives the id of the first  *)
(* entry in stored order whose dir equals it, and only when no dir equals  *)
(* it the id of the first entry whose name equals it; when neither a dir   *)
(* nor a name equals it the call fails and returns no id.                  *)
(***************************************************************************)
ResolvePrecedence ==
    reg_res.op = "resolve" =>
        LET apps   == load_apps_map(apps_file)
            token  == reg_res.token
            byDir  == {i \in 1..Len(apps) : apps[i].dir = token}
            byName == {i \in 1..Len(apps) : apps[i].name = token}
        IN  IF IsIdShape(token)
            THEN reg_res.ret.ok /\ reg_res.ret.val = token
            ELSE IF byDir # {}
            THEN reg_res.ret.ok /\ reg_res.ret.val = apps[MinOf(byDir)].id
            ELSE IF byName # {}
            THEN reg_res.ret.ok /\ reg_res.ret.val = apps[MinOf(byName)].id
            ELSE ~reg_res.ret.ok

\* "Demo_2" is the name of the first entry and the dir of the second.
ResolvePrecedenceWitness ==
    /\ reg_res.op = "resolve"
    /\ reg_res.token = Demo_2
    /\ load_apps_map(apps_file) = <<Entry(Demo_2, Id1, Demo), Entry(Demo, Id2, Demo_2)>>
    /\ reg_res.ret = Ok(Id2)

(***************************************************************************)
(* C8.  Allocation naming: allocate_dir_for_app(name, id) returns          *)
(* sanitize(name) when no entry has that dir, and otherwise                *)
(* sanitize(name) + "_k" for the lowest k >= 2 that no entry has as dir;   *)
(* it appends exactly one entry {name, id, dir} at the end and leaves the  *)
(* earlier entries as they were.  Three allocations named "Demo" on the    *)
(* empty registry give "Demo", "Demo_2", "Demo_3" in that order.           *)
(***************************************************************************)
AllocationNaming ==
    /\ reg_res.op = "allocate" =>
        LET before == reg_res.before
            base   == ensure_filename(reg_res.name, NoExtension)
            cand(k) == base \o <<95>> \o DecimalStr(k)
            free   == {k \in 2..(Len(before) + 2) : cand(k) \notin Dirs(before)}
            want   == IF base \notin Dirs(before) THEN base ELSE cand(MinOf(free))
        IN  /\ reg_res.ret = want
            /\ apps_file.exists
            /\ apps_file.apps =
                  before \o <<[name |-> reg_res.name, id |-> reg_res.id, dir |-> want]>>
    /\ LET apps == load_apps_map(apps_file)
       IN  (apps0 = <<>> /\ Len(apps) = 3 /\ \A i \in 1..3 : apps[i].name = Demo)
              => <<apps[1].dir, apps[2].dir, apps[3].dir>> = <<Demo, Demo_2, Demo_3>>

\* The third "Demo" allocated on a registry that was empty.
AllocationNamingWitness ==
    /\ apps0 = <<>>
    /\ reg_res.op = "allocate"
    /\ reg_res.ret = Demo_3
    /\ Len(reg_res.before) = 2
    /\ \A i \in 1..3 : apps_file.apps[i].name = Demo

NodesOf(dsl) == dsl.workflow.graph.nodes

TitlesDiffer(nodes) ==
    \A i, j \in 1..Len(nodes) : i # j => nodes[i].data.title # nodes[j].data.title

SameText(u, v) == u.kind = v.kind /\ u.val = v.val

\* The same prompt texts, entry by entry, and the same code.
SameTexts(d, e) ==
    /\ Has(d, "prompt_template") = Has(e, "prompt_template")
    /\ (Has(d, "prompt_template") /\ Has(e, "prompt_template")) =>
          /\ Len(d.prompt_template) = Len(e.prompt_template)
          /\ \A k \in 1..Len(d.prompt_template) :
                k <= Len(e.prompt_template) =>
                    SameText(d.prompt_template[k].text, e.prompt_template[k].text)
    /\ Has(d, "code") = Has(e, "code")
    /\ (Has(d, "code") /\ Has(e, "code")) => SameText(d.code, e.code)

(***************************************************************************)
(* C1.  Round trip: for every workflow document whose nodes have pairwise  *)
(* different titles, split_flow_to_files on an empty directory and then    *)
(* build_flow_from_files give a document with the same nodes in the same   *)
(* order, the same node ids, and the same text in every prompt_template    *)
(* entry and every code field.                                             *)
(***************************************************************************)
RoundTrip ==
    (flow_pc = "built" /\ TitlesDiffer(NodesOf(flow_doc))) =>
        /\ flow_out.err = ""
        /\ Len(NodesOf(flow_out.out)) = Len(NodesOf(flow_doc))
        /\ \A i \in 1..Len(NodesOf(flow_doc)) :
              /\ NodesOf(flow_out.out)[i].id = NodesOf(flow_doc)[i].id
              /\ NodesOf(flow_out.out)[i].data.title = NodesOf(flow_doc)[i].data.title
              /\ SameTexts(NodesOf(flow_doc)[i].data, NodesOf(flow_out.out)[i].data)

(***************************************************************************)
(* C3.  Registry id uniqueness: from the empty registry, after any         *)
(* sequence of pulls no two registry entries have the same id.             *)
(***************************************************************************)
RegistryIdsUnique ==
    LET apps == load_apps_map(apps_file)
    IN  \A i, j \in 1..Len(apps) : i # j => apps[i].id # apps[j].id

(***************************************************************************)
(* C4.  Stable directory per app: when pull is run two or more times for   *)
(* the same app id, with the app name unchanged, a later pull decomposes   *)
(* into the directory the first pull of that id used.                      *)
(***************************************************************************)
StableDirectory ==
    \A i, j \in 1..Len(pulled) :
        (i < j /\ pulled[i].id = pulled[j].id /\ pulled[i].name = pulled[j].name)
            => pulled[j].dir = pulled[i].dir

(***************************************************************************)
(* C9.  No partial commit on error: when a pull, push or build command     *)
(* aborts with an error, the persisted registry holds the entries it held  *)
(* before the command started.                                             *)
(***************************************************************************)
NoPartialCommit ==
    (res.op \in {"pull", "push", "build"} /\ res.status # "ok")
        => load_apps_map(apps_file) = load_apps_map(res.before)

(***************************************************************************)
(* C10.  Push composes from the directory the user named: after any        *)
(* sequence of pulls, when push is called with a token equal to the dir of *)
(* a registry entry E, the directory handed to build_flow_from_files is    *)
(* E's dir and the app id sent is E's id.                                  *)
(***************************************************************************)
PushUsesNamedDir ==
    LET apps == load_apps_map(apps_file)
    IN  \A i \in 1..Len(apps) :
            (res.op = "push" /\ res.used /\ apps[i].dir = res.arg)
                => /\ res.dir = apps[i].dir
                   /\ res.has_id => res.app_id = apps[i].id
=============================================================================
